---- MODULE Spec2Model ----
(***************************************************************************)
(* Model of the climbing-log API of src/backend/server.py: the grade       *)
(* codec, the payload validator, the Postgres table climb_logs with its    *)
(* create / update / delete handlers and the start-up seeding, and the     *)
(* list query (filter, grade-sort policy, order, page).                    *)
(*                                                                         *)
(* Text that the code inspects character by character (location, route     *)
(* name, grade, the search text q) is a sequence of one-character strings. *)
(* Enumerated request fields are strings taken as already stripped.        *)
(***************************************************************************)
EXTENDS Integers, Sequences, FiniteSets, TLC

VARIABLES
    store,      \* table climb_logs: id -> row
    ready,      \* app._db_ready of the running instance
    seed,       \* content of data/seed.json (fixed for a behaviour)
    uuids,      \* number of uuid4() values drawn so far
    deleted,    \* history: ids whose DELETE succeeded
    resp,       \* the last response sent
    lq          \* the list request in progress (its three transactions)

vars == <<store, ready, seed, uuids, deleted, resp, lq>>

----------------------------------------------------------------------------
(* Bounds of the model.                                                    *)

\* uuid4() values the handlers and the seeding may draw
MaxUuids == 1

\* Largest page number a list request asks for
MaxPage == 3

----------------------------------------------------------------------------
(* Program constants.                                                      *)

PAGE_SIZE_DEFAULT == 10

PAGE_SIZE_MAX == 50

MAX_IMAGE_BYTES == 5 * 1024 * 1024

ALLOWED_IMAGE_MIMES == {"image/jpeg", "image/png", "image/gif"}

\* Date.today(), as (year, month, day)
Today == <<2025, 1, 30>>

----------------------------------------------------------------------------
(* Text helpers: str.strip, str.lower / str.upper, str.isdigit, int().     *)

IsSpace(ch) == ch = " "

RECURSIVE LStrip(_)
LStrip(s) == IF s # <<>> /\ IsSpace(Head(s)) THEN LStrip(Tail(s)) ELSE s

RECURSIVE RStrip(_)
RStrip(s) ==
    IF s # <<>> /\ IsSpace(s[Len(s)]) THEN RStrip(SubSeq(s, 1, Len(s) - 1)) ELSE s

Strip(s) == RStrip(LStrip(s))

LowerCh(ch) ==
    CASE ch = "A" -> "a"
      [] ch = "B" -> "b"
      [] ch = "V" -> "v"
      [] ch = "X" -> "x"
      [] OTHER -> ch

UpperCh(ch) ==
    CASE ch = "a" -> "A"
      [] ch = "b" -> "B"
      [] ch = "v" -> "V"
      [] ch = "x" -> "X"
      [] OTHER -> ch

Lower(s) == [i \in 1..Len(s) |-> LowerCh(s[i])]

Upper(s) == [i \in 1..Len(s) |-> UpperCh(s[i])]

Digits == {"0", "1", "2", "3", "4", "5", "6", "7", "8", "9"}

IsDigit(ch) == ch \in Digits

DigitVal(ch) ==
    CASE ch = "0" -> 0 [] ch = "1" -> 1 [] ch = "2" -> 2 [] ch = "3" -> 3
      [] ch = "4" -> 4 [] ch = "5" -> 5 [] ch = "6" -> 6 [] ch = "7" -> 7
      [] ch = "8" -> 8 [] ch = "9" -> 9

RECURSIVE DecVal(_)
DecVal(s) ==
    IF s = <<>> THEN 0 ELSE 10 * DecVal(SubSeq(s, 1, Len(s) - 1)) + DigitVal(s[Len(s)])

AllDigits(s) == s # <<>> /\ \A i \in 1..Len(s) : IsDigit(s[i])

\* Python's int(text): optional surrounding blanks, optional sign, digits.
\* The result is <<ok, value>>; ok = FALSE stands for ValueError.
PyInt(s) ==
    LET t == Strip(s)
        signed == t # <<>> /\ Head(t) \in {"+", "-"}
        body == IF signed THEN Tail(t) ELSE t
    IN  IF AllDigits(body)
        THEN <<TRUE, IF signed /\ Head(t) = "-" THEN 0 - DecVal(body) ELSE DecVal(body)>>
        ELSE <<FALSE, 0>>

StartsWith(s, p) == Len(s) >= Len(p) /\ SubSeq(s, 1, Len(p)) = p

----------------------------------------------------------------------------
(* Grade codec.                                                            *)

_yds_key(g) ==
    LET s == Lower(Strip(g))
    IN  IF ~StartsWith(s, <<"5", ".">>)
        THEN -1
        ELSE LET num == SelectSeq(SubSeq(s, 3, Len(s)), IsDigit)
                 n == PyInt(num)
             IN  IF n[1] THEN 500 + n[2] ELSE -1

_v_key(g) ==
    LET s == Upper(Strip(g))
    IN  IF ~StartsWith(s, <<"V">>)
        THEN -1
        ELSE LET n == PyInt(Tail(s))
             IN  IF n[1] THEN n[2] ELSE -1

_grade_key(grade_system, grade) ==
    IF grade_system = "YDS" THEN _yds_key(grade)
    ELSE IF grade_system = "V" THEN _v_key(grade)
    ELSE -1

----------------------------------------------------------------------------
(* Dates.  A request's date text is blank, unparseable ("bad": the split   *)
(* on "-" and int() raise), or three integers y-m-d.                       *)

NoDate == [kind |-> "blank", y |-> 0, m |-> 0, d |-> 0]

BadDate == [kind |-> "bad", y |-> 0, m |-> 0, d |-> 0]

Ymd(y, m, d) == [kind |-> "ymd", y |-> y, m |-> m, d |-> d]

IsLeap(y) == (y % 4 = 0 /\ y % 100 # 0) \/ y % 400 = 0

DaysInMonth(y, m) ==
    IF m = 2 THEN (IF IsLeap(y) THEN 29 ELSE 28)
    ELSE IF m \in {4, 6, 9, 11} THEN 30 ELSE 31

\* datetime.date(y, m, d) does not raise ValueError
DateOk(dt) ==
    /\ dt.kind = "ymd"
    /\ dt.y >= 1 /\ dt.y <= 9999
    /\ dt.m >= 1 /\ dt.m <= 12
    /\ dt.d >= 1 /\ dt.d <= DaysInMonth(dt.y, dt.m)

\* date ordering: a < b
DateLess(a, b) ==
    \/ a[1] < b[1]
    \/ a[1] = b[1] /\ a[2] < b[2]
    \/ a[1] = b[1] /\ a[2] = b[2] /\ a[3] < b[3]

DateOf(dt) == <<dt.y, dt.m, dt.d>>

----------------------------------------------------------------------------
(* Validator.                                                              *)

Required ==
    <<"date", "environment", "location", "routeName", "climbType", "gradeSystem",
      "grade", "progress">>

NoErrors == [f \in {} |-> ""]

\* errors[field] = message
Put(errors, field, message) ==
    [f \in (DOMAIN errors) \cup {field} |-> IF f = field THEN message ELSE errors[f]]

\* not str(payload.get(field, "")).strip()
FieldBlank(payload, field) ==
    CASE field = "date" -> payload.date.kind = "blank"
      [] field = "location" -> Strip(payload.location) = <<>>
      [] field = "routeName" -> Strip(payload.routeName) = <<>>
      [] field = "grade" -> Strip(payload.grade) = <<>>
      [] OTHER -> payload[field] = ""

RECURSIVE RequiredErrors(_, _, _)
RequiredErrors(payload, i, errors) ==
    IF i > Len(Required) THEN errors
    ELSE RequiredErrors(payload, i + 1,
            IF FieldBlank(payload, Required[i])
            THEN Put(errors, Required[i], "required")
            ELSE errors)

\* The cross-field rule as the code nests it: the range check of a scale
\* runs only in the branch of the climb type that demands that scale.
GradeRules(ctype, gsys, grade, errors) ==
    IF ctype = "boulder"
    THEN LET e1 == IF gsys # "" /\ gsys # "V"
                   THEN Put(errors, "gradeSystem", "Bouldering should use V-Scale.")
                   ELSE errors
         IN  IF gsys = "V" /\ grade # <<>> /\ (_v_key(grade) < 0 \/ _v_key(grade) > 17)
             THEN Put(e1, "grade", "Bouldering grades must be between V0 and V17.")
             ELSE e1
    ELSE LET e1 == IF gsys # "" /\ gsys # "YDS"
                   THEN Put(errors, "gradeSystem", "Roped climbs should use YDS.")
                   ELSE errors
         IN  IF gsys = "YDS" /\ grade # <<>>
                /\ (_yds_key(grade) < 502 \/ _yds_key(grade) > 515)
             THEN Put(e1, "grade", "Roped climb grades must be between 5.2 and 5.15.")
             ELSE e1

validate_payload(payload) ==
    LET e0 == RequiredErrors(payload, 1, NoErrors)
        e1 == IF payload.date.kind = "blank" THEN e0
              ELSE IF ~DateOk(payload.date) THEN Put(e0, "date", "Date must be YYYY-MM-DD.")
              ELSE IF DateLess(Today, DateOf(payload.date))
                   THEN Put(e0, "date", "Date cannot be in the future.")
                   ELSE e0
        env == payload.environment
        e2 == IF env # "" /\ env \notin {"gym", "outdoor"}
              THEN Put(e1, "environment", "Environment must be gym or outdoor.")
              ELSE e1
        ctype == payload.climbType
        e3 == IF ctype # "" /\ ctype \notin {"top-rope", "sport", "trad", "boulder"}
              THEN Put(e2, "climbType", "Invalid climb type.")
              ELSE e2
        prog == payload.progress
        e4 == IF prog # "" /\ prog \notin {"complete", "incomplete"}
              THEN Put(e3, "progress", "Progress must be complete or incomplete.")
              ELSE e3
    IN  GradeRules(ctype, payload.gradeSystem, Strip(payload.grade), e4)

\* _parse_payload_from_request: every field is read as text and stripped
_parse_payload_from_request(raw) ==
    [raw EXCEPT !.location = Strip(@), !.routeName = Strip(@), !.grade = Strip(@)]

----------------------------------------------------------------------------
(* The table climb_logs.  A row's id is the key of store; created_at is    *)
(* read by no statement and is left out.  NULL is the SQL null of the      *)
(* three image columns.                                                    *)

NULL == "NULL"

NoBytes == <<>>

Row(date, env, loc, route, ctype, gsys, grade, gk, prog, idata, imime, iname) ==
    [date |-> date, environment |-> env, location |-> loc, route_name |-> route,
     climb_type |-> ctype, grade_system |-> gsys, grade |-> grade, grade_key |-> gk,
     progress |-> prog, image_data |-> idata, image_mime |-> imime,
     image_filename |-> iname]

EmptyTable == [id \in {} |-> 0]

\* str(uuid.uuid4()): the n-th value drawn, distinct from every other id
UuidNames == <<"u1", "u2", "u3", "u4", "u5", "u6">>

uuid4(n) == UuidNames[n]

\* INSERT of one row under a fresh key
Insert(table, id, row) ==
    [k \in (DOMAIN table) \cup {id} |-> IF k = id THEN row ELSE table[k]]

\* INSERT ... ON CONFLICT (id) DO NOTHING
InsertOrSkip(table, id, row) ==
    IF id \in DOMAIN table THEN table ELSE Insert(table, id, row)

\* DELETE FROM climb_logs WHERE id = ...
DeleteRow(table, id) == [k \in (DOMAIN table) \ {id} |-> table[k]]

----------------------------------------------------------------------------
(* Uploaded image of a multipart request.                                  *)

\* no "image" part in request.files
NoUpload == [part |-> FALSE, filename |-> "", mimetype |-> "", data |-> "", size |-> 0]

Upload(filename, mimetype, data, size) ==
    [part |-> TRUE, filename |-> filename, mimetype |-> mimetype, data |-> data,
     size |-> size]

\* _process_image_bytes: a GIF is kept; a JPEG or PNG is re-encoded when
\* Pillow is installed and can decode it, and kept as uploaded otherwise.
\* The set of possible (bytes, mime) results.
_process_image_bytes(data, mime) ==
    IF mime = "image/gif"
    THEN {<<<<data, "raw">>, mime>>}
    ELSE {<<<<data, "raw">>, mime>>, <<<<data, "resized">>, mime>>}

\* _read_and_validate_image_file: the set of possible results
\* [data, mime, filename, err]; err = "" stands for None.
_read_and_validate_image_file(file) ==
    IF ~file.part \/ file.filename = ""
    THEN {[data |-> NoBytes, mime |-> NULL, filename |-> NULL, err |-> ""]}
    ELSE IF file.mimetype \notin ALLOWED_IMAGE_MIMES
    THEN {[data |-> NoBytes, mime |-> NULL, filename |-> NULL,
           err |-> "Invalid image type. Upload a JPG, PNG, or GIF."]}
    ELSE IF file.size > MAX_IMAGE_BYTES
    THEN {[data |-> NoBytes, mime |-> NULL, filename |-> NULL,
           err |-> "Image is too large. Max size is 5 MB."]}
    ELSE {[data |-> r[1], mime |-> r[2], filename |-> file.filename, err |-> ""] :
            r \in _process_image_bytes(file.data, file.mimetype)}

----------------------------------------------------------------------------
(* Start-up: table creation and seeding.                                   *)

NoSeedFile == [exists |-> FALSE, items |-> <<>>]

SeedFile(items) == [exists |-> TRUE, items |-> items]

\* how many items of the seed file carry no id and draw a uuid4
RECURSIVE MissingIds(_)
MissingIds(items) ==
    IF items = <<>> THEN 0
    ELSE (IF Head(items).id = "" THEN 1 ELSE 0) + MissingIds(Tail(items))

\* the row seed_db_if_empty builds from one item of the seed file
SeedRow(item) ==
    LET gsys == item.gradeSystem
        grade == Strip(item.grade)
    IN  Row(DateOf(item.date), item.environment, Strip(item.location),
            Strip(item.routeName), item.climbType, gsys, grade,
            _grade_key(gsys, grade), item.progress, NoBytes, NULL, NULL)

\* cur.executemany(insert_sql, rows): the items in order, the n-th missing
\* id replaced by a fresh uuid4
RECURSIVE SeedInsert(_, _, _)
SeedInsert(table, items, n) ==
    IF items = <<>> THEN table
    ELSE LET item == Head(items)
             fresh == item.id = ""
             id == IF fresh THEN uuid4(n + 1) ELSE item.id
         IN  SeedInsert(InsertOrSkip(table, id, SeedRow(item)), Tail(items),
                        IF fresh THEN n + 1 ELSE n)

\* the DATE column takes every item's date text
SeedInsertable(items) == \A i \in 1..Len(items) : DateOk(items[i].date)

\* seed_db_if_empty on table, as the table it leaves
seed_db_if_empty(table, file, n) ==
    IF ~file.exists THEN table
    ELSE IF Cardinality(DOMAIN table) > 0 THEN table
    ELSE IF Len(file.items) = 0 THEN table
    ELSE SeedInsert(table, file.items, n)

----------------------------------------------------------------------------
(* Write handlers, as functions of the table: the table they leave, the    *)
(* uuid4 values drawn, and the response.                                   *)

NoBody == [id |-> ""]

Response(op, status, id, errors, body) ==
    [op |-> op, status |-> status, id |-> id, errors |-> errors, body |-> body]

\* the JSON record create_log and update_log answer with
ApiBody(id, payload, has_image) ==
    [id |-> id, date |-> payload.date, environment |-> payload.environment,
     location |-> payload.location, routeName |-> payload.routeName,
     climbType |-> payload.climbType, gradeSystem |-> payload.gradeSystem,
     grade |-> payload.grade, progress |-> payload.progress, hasImage |-> has_image]

\* errors.update(img_err)
WithImageError(errors, img) ==
    IF img.err # "" THEN Put(errors, "image", img.err) ELSE errors

\* the nine data columns written from a validated payload, and grade_key
PayloadRow(payload, idata, imime, iname) ==
    Row(DateOf(payload.date), payload.environment, Strip(payload.location),
        Strip(payload.routeName), payload.climbType, payload.gradeSystem,
        Strip(payload.grade), _grade_key(payload.gradeSystem, Strip(payload.grade)),
        payload.progress, idata, imime, iname)

\* POST /api/logs
create_log(table, n, raw, img) ==
    LET payload == _parse_payload_from_request(raw)
        errors == WithImageError(validate_payload(payload), img)
        new_id == uuid4(n + 1)
    IN  IF DOMAIN errors # {}
        THEN [table |-> table, uuids |-> n,
              resp |-> Response("create", 400, "", errors, NoBody)]
        ELSE [table |-> Insert(table, new_id,
                               PayloadRow(payload, img.data, img.mime, img.filename)),
              uuids |-> n + 1,
              resp |-> Response("create", 201, new_id, NoErrors,
                                ApiBody(new_id, payload, img.mime # NULL))]

\* the image columns when an uploaded image is looked at before the
\* removeImage flag
UpdatedImageUploadFirst(row, remove_image, img) ==
    IF img.mime # NULL
    THEN [data |-> img.data, mime |-> img.mime, filename |-> img.filename]
    ELSE IF remove_image
    THEN [data |-> NoBytes, mime |-> NULL, filename |-> NULL]
    ELSE [data |-> row.image_data, mime |-> row.image_mime,
          filename |-> row.image_filename]

\* the image columns update_log leaves in a row
UpdatedImage(row, remove_image, img) ==
    IF remove_image
    THEN [data |-> NoBytes, mime |-> NULL, filename |-> NULL]
    ELSE IF img.mime # NULL
    THEN [data |-> img.data, mime |-> img.mime, filename |-> img.filename]
    ELSE [data |-> row.image_data, mime |-> row.image_mime,
          filename |-> row.image_filename]

\* update_log with the image checked after the UPDATE has run: a payload
\* that validates is written although the request is answered 400
update_log_image_checked_late(table, log_id, raw, remove_image, img) ==
    LET payload == _parse_payload_from_request(raw)
        field_errors == validate_payload(payload)
        errors == WithImageError(field_errors, img)
        written == IF DOMAIN field_errors = {} /\ log_id \in DOMAIN table
                   THEN [table EXCEPT ![log_id] =
                            PayloadRow(payload, NoBytes, NULL, NULL)]
                   ELSE table
    IN  IF DOMAIN errors # {}
        THEN [table |-> written,
              resp |-> Response("update", 400, log_id, errors, NoBody)]
        ELSE IF log_id \notin DOMAIN table
        THEN [table |-> table, resp |-> Response("update", 404, log_id, NoErrors, NoBody)]
        ELSE [table |-> written,
              resp |-> Response("update", 200, log_id, NoErrors,
                                ApiBody(log_id, payload, FALSE))]

\* PUT /api/logs/<log_id>
update_log(table, log_id, raw, remove_image, img) ==
    LET payload == _parse_payload_from_request(raw)
        errors == WithImageError(validate_payload(payload), img)
    IN  IF DOMAIN errors # {}
        THEN [table |-> table, resp |-> Response("update", 400, log_id, errors, NoBody)]
        ELSE IF log_id \notin DOMAIN table
        THEN [table |-> table, resp |-> Response("update", 404, log_id, NoErrors, NoBody)]
        ELSE LET im == UpdatedImage(table[log_id], remove_image, img)
                 row == PayloadRow(payload, im.data, im.mime, im.filename)
             IN  [table |-> [table EXCEPT ![log_id] = row],
                  resp |-> Response("update", 200, log_id, NoErrors,
                                    ApiBody(log_id, payload, row.image_mime # NULL))]

\* delete_log without the rowcount test: always answered 200
delete_log_unchecked(table, log_id) ==
    [table |-> IF log_id \in DOMAIN table THEN DeleteRow(table, log_id) ELSE table,
     resp |-> Response("delete", 200, log_id, NoErrors, NoBody)]

\* DELETE /api/logs/<log_id>
delete_log(table, log_id) ==
    IF log_id \notin DOMAIN table
    THEN [table |-> table, resp |-> Response("delete", 404, log_id, NoErrors, NoBody)]
    ELSE [table |-> DeleteRow(table, log_id),
          resp |-> Response("delete", 200, log_id, NoErrors, NoBody)]

----------------------------------------------------------------------------
(* Query engine: WHERE clauses, grade-sort policy, ORDER BY, LIMIT/OFFSET. *)

Range(s) == {s[i] : i \in 1..Len(s)}

\* _parse_csv, on the comma-separated parts of the argument
_parse_csv(parts) == SelectSeq(parts, LAMBDA x : x # "")

\* text ILIKE pattern: % is any run of characters, _ any one character,
\* every other character itself, letters without regard to case
RECURSIVE ILike(_, _)
ILike(text, pat) ==
    IF pat = <<>> THEN text = <<>>
    ELSE IF Head(pat) = "%"
    THEN \E k \in 0..Len(text) : ILike(SubSeq(text, k + 1, Len(text)), Tail(pat))
    ELSE IF Head(pat) = "_"
    THEN text # <<>> /\ ILike(Tail(text), Tail(pat))
    ELSE /\ text # <<>>
         /\ LowerCh(Head(text)) = LowerCh(Head(pat))
         /\ ILike(Tail(text), Tail(pat))

\* like = f"%{q}%"
LikePattern(q) == <<"%">> \o q \o <<"%">>

\* build_where_clauses: the WHERE condition, as a predicate of a row
build_where_clauses(q, envs, types, progress, row) ==
    /\ q # <<>> =>
          \/ ILike(row.route_name, LikePattern(q))
          \/ ILike(row.location, LikePattern(q))
    /\ envs # <<>> => row.environment \in Range(envs)
    /\ types # <<>> => row.climb_type \in Range(types)
    /\ progress # <<>> => row.progress \in Range(progress)

\* the request arguments list_logs filters by, parsed
Where(args, row) ==
    build_where_clauses(Lower(Strip(args.q)), _parse_csv(args.env),
                        _parse_csv(args.type), _parse_csv(args.progress), row)

\* ids of the rows SELECT ... WHERE returns
Matching(table, args) == {id \in DOMAIN table : Where(args, table[id])}

\* should_allow_grade_sort asking for the scales of the whole table
should_allow_grade_sort_unfiltered(table, args) ==
    LET systems == {table[id].grade_system : id \in DOMAIN table} \ {""}
    IN  IF Cardinality(systems) = 1 THEN CHOOSE x \in systems : TRUE ELSE "None"

\* should_allow_grade_sort: the single non-blank grading scale of the
\* filtered rows, or "None"
should_allow_grade_sort(table, args) ==
    LET systems == {table[id].grade_system : id \in Matching(table, args)} \ {""}
    IN  IF Cardinality(systems) = 1 THEN CHOOSE x \in systems : TRUE ELSE "None"

OrderBy(col, dir) == [col |-> col, dir |-> dir]

resolve_order_by(sort) ==
    CASE sort = "date_desc" -> OrderBy("date", "DESC")
      [] sort = "date_asc" -> OrderBy("date", "ASC")
      [] sort = "location_asc" -> OrderBy("location", "ASC")
      [] sort = "location_desc" -> OrderBy("location", "DESC")
      [] sort = "route_asc" -> OrderBy("route_name", "ASC")
      [] sort = "route_desc" -> OrderBy("route_name", "DESC")
      [] OTHER -> OrderBy("date", "DESC")

\* the "Sort logic" of list_logs; sys is the answer of
\* should_allow_grade_sort, read only for the two grade sorts
SortLogic(sort, sys) ==
    IF sort \in {"grade_asc", "grade_desc"}
    THEN IF sys \in {"YDS", "V"}
         THEN OrderBy("grade_key", IF sort = "grade_asc" THEN "ASC" ELSE "DESC")
         ELSE OrderBy("date", "DESC")
    ELSE resolve_order_by(sort)

\* byte value of a character, the order of text under the C collation
Code(ch) ==
    CASE ch = " " -> 32 [] ch = "%" -> 37 [] ch = "+" -> 43 [] ch = "-" -> 45
      [] ch = "." -> 46 [] ch \in Digits -> 48 + DigitVal(ch)
      [] ch = "A" -> 65 [] ch = "B" -> 66 [] ch = "V" -> 86 [] ch = "X" -> 88
      [] ch = "_" -> 95 [] ch = "a" -> 97 [] ch = "b" -> 98 [] ch = "v" -> 118
      [] ch = "x" -> 120

RECURSIVE TextLess(_, _)
TextLess(a, b) ==
    IF b = <<>> THEN FALSE
    ELSE IF a = <<>> THEN TRUE
    ELSE IF Head(a) = Head(b) THEN TextLess(Tail(a), Tail(b))
    ELSE Code(Head(a)) < Code(Head(b))

\* r1 sorts strictly before r2 under ORDER BY order_by
Before(r1, r2, order_by) ==
    LET lt(x, y) ==
            CASE order_by.col = "date" -> DateLess(x.date, y.date)
              [] order_by.col = "grade_key" -> x.grade_key < y.grade_key
              [] order_by.col = "location" -> TextLess(x.location, y.location)
              [] order_by.col = "route_name" -> TextLess(x.route_name, y.route_name)
    IN  IF order_by.dir = "ASC" THEN lt(r1, r2) ELSE lt(r2, r1)

\* ORDER BY names one column and no tie-breaker: the statement may return
\* rows that tie on it in any order.  Every order of ids it may return.
Orderings(table, ids, order_by) ==
    LET n == Cardinality(ids)
    IN  {s \in [1..n -> ids] :
            /\ \A i, j \in 1..n : i # j => s[i] # s[j]
            /\ \A i, j \in 1..n :
                  i < j => ~Before(table[s[j]], table[s[i]], order_by)}

Min(a, b) == IF a < b THEN a ELSE b

Max(a, b) == IF a > b THEN a ELSE b

\* a page that starts one row early
PageFromOffset(s, page_size, offset) ==
    SubSeq(s, Max(offset, 1), Min(Len(s), Max(offset, 1) + page_size - 1))

\* LIMIT page_size OFFSET offset of an ordered result
Page(s, page_size, offset) == SubSeq(s, offset + 1, Min(Len(s), offset + page_size))

\* page and pageSize as list_logs clamps them
ClampPage(page) == IF page < 1 THEN 1 ELSE page

ClampPageSize(page_size) ==
    IF page_size < 1 THEN PAGE_SIZE_DEFAULT
    ELSE IF page_size > PAGE_SIZE_MAX THEN PAGE_SIZE_MAX
    ELSE page_size

\* to_api_row of the row with key id
to_api_row(table, id) ==
    [id |-> id, date |-> table[id].date, environment |-> table[id].environment,
     location |-> table[id].location, routeName |-> table[id].route_name,
     climbType |-> table[id].climb_type, gradeSystem |-> table[id].grade_system,
     grade |-> table[id].grade, progress |-> table[id].progress,
     hasImage |-> table[id].image_mime # NULL]

\* first transaction of list_logs: SELECT COUNT(*)
ListTotal(table, args) == Cardinality(Matching(table, args))

\* second transaction (grade sorts only) and the sort decision
ListOrderBy(table, args) ==
    SortLogic(args.sort,
              IF args.sort \in {"grade_asc", "grade_desc"}
              THEN should_allow_grade_sort(table, args)
              ELSE "None")

\* third transaction: the possible results of the paged SELECT
ListItems(table, args, order_by) ==
    LET page == ClampPage(args.page)
        page_size == ClampPageSize(args.pageSize)
        offset == (page - 1) * page_size
    IN  {[i \in 1..Len(p) |-> to_api_row(table, p[i])] :
            p \in {Page(s, page_size, offset) :
                      s \in Orderings(table, Matching(table, args), order_by)}}

ListBody(items, total, args) ==
    [items |-> items, total |-> total, page |-> ClampPage(args.page),
     pageSize |-> ClampPageSize(args.pageSize)]

----------------------------------------------------------------------------
(* The list request in progress and its response.  before, after and       *)
(* writes are history: the table the count ran on, the table the paged     *)
(* SELECT ran on, and how many writes changed the table in between.        *)

IdleQuery == [pc |-> "idle"]

NoteWrite(query, table, table2) ==
    IF query.pc = "idle" \/ table2 = table THEN query
    ELSE [query EXCEPT !.writes = Min(@ + 1, 2)]

ListResponse(args, order_by, body, before, after, writes) ==
    [op |-> "list", status |-> 200, id |-> "", errors |-> NoErrors, body |-> body,
     args |-> args, order_by |-> order_by, before |-> before, after |-> after,
     writes |-> writes]

\* GET /api/logs answered from one state of the table: the possible
\* (body, sort decision) pairs
list_logs(table, args) ==
    {[body |-> ListBody(items, ListTotal(table, args), args),
      order_by |-> ListOrderBy(table, args)] :
        items \in ListItems(table, args, ListOrderBy(table, args))}

----------------------------------------------------------------------------
(* Inputs of the model.                                                    *)

PBoulder ==
    [date |-> Ymd(2025, 1, 30), environment |-> "gym", location |-> <<"A", "b">>,
     routeName |-> <<"a">>, climbType |-> "boulder", gradeSystem |-> "V",
     grade |-> <<"V", "1", "0">>, progress |-> "complete"]

PBoulderEasy ==
    [PBoulder EXCEPT !.date = Ymd(2024, 12, 31), !.grade = <<" ", "v", "3">>,
                     !.routeName = <<"b", " ">>, !.progress = "incomplete"]

PSport ==
    [date |-> Ymd(2024, 12, 31), environment |-> "outdoor", location |-> <<"b">>,
     routeName |-> <<"B", "a">>, climbType |-> "sport", gradeSystem |-> "YDS",
     grade |-> <<"5", ".", "1", "0", "a">>, progress |-> "incomplete"]

PTrad ==
    [PSport EXCEPT !.climbType = "trad", !.grade = <<"5", ".", "9">>,
                   !.environment = "gym", !.progress = "complete"]

ValidPayloads == {PBoulder, PBoulderEasy, PSport, PTrad}

\* missing date and the wrong scale for a boulder
PNoDateWrongScale == [PBoulder EXCEPT !.date = NoDate, !.gradeSystem = "YDS"]

\* the wrong scale for a boulder, and a grade outside that scale's range
PWrongScaleBadGrade ==
    [PBoulder EXCEPT !.gradeSystem = "YDS", !.grade = <<"5", ".", "9", "9">>]

PFuture == [PSport EXCEPT !.date = Ymd(2025, 1, 31)]

PTooHard == [PBoulder EXCEPT !.grade = <<"V", "1", "8">>]

InvalidPayloads == {PNoDateWrongScale, PWrongScaleBadGrade, PFuture, PTooHard}

Gif == Upload("b.gif", "image/gif", "B", MAX_IMAGE_BYTES)

Png == Upload("a.png", "image/png", "A", 1000)

Pdf == Upload("c.pdf", "application/pdf", "C", 1000)

BigJpeg == Upload("d.jpg", "image/jpeg", "D", MAX_IMAGE_BYTES + 1)

Unnamed == Upload("", "image/png", "E", 1000)

Request(raw, file, remove_image) ==
    [raw |-> raw, file |-> file, remove_image |-> remove_image]

\* create and update requests: accepted ones with and without an image and
\* the removeImage flag, and rejected ones of each kind
Requests ==
    {Request(PBoulder, NoUpload, FALSE), Request(PSport, Gif, FALSE),
     Request(PSport, NoUpload, TRUE), Request(PBoulder, Gif, TRUE),
     Request(PNoDateWrongScale, NoUpload, FALSE), Request(PTooHard, Gif, FALSE),
     Request(PSport, Pdf, FALSE), Request(PBoulder, BigJpeg, TRUE)}

SeedItem(id, payload) ==
    [id |-> id, date |-> payload.date, environment |-> payload.environment,
     location |-> payload.location, routeName |-> payload.routeName,
     climbType |-> payload.climbType, gradeSystem |-> payload.gradeSystem,
     grade |-> payload.grade, progress |-> payload.progress]

\* an item with no gradeSystem and no grade
SeedBlankScale == SeedItem("s2", [PSport EXCEPT !.gradeSystem = "", !.grade = <<>>])

\* an item whose scale does not fit its climb type and whose grade does
\* not decode
SeedUndecodable ==
    SeedItem("s1", [PBoulder EXCEPT !.gradeSystem = "YDS", !.grade = <<"5", ".", "x">>])

SeedFiles ==
    {NoSeedFile,
     SeedFile(<<>>),
     SeedFile(<<SeedItem("s1", PBoulderEasy)>>),
     SeedFile(<<SeedUndecodable, SeedItem("s1", PSport)>>),
     SeedFile(<<SeedItem("", PTrad)>>),
     SeedFile(<<SeedItem("s1", [PSport EXCEPT !.date = NoDate])>>)}

RequestIds == {"s1", "s2", "nope"} \cup {uuid4(i) : i \in 1..MaxUuids}

Args(q, env, type, progress, sort, page, pageSize) ==
    [q |-> q, env |-> env, type |-> type, progress |-> progress, sort |-> sort,
     page |-> page, pageSize |-> pageSize]

Sorts ==
    {"date_desc", "date_asc", "location_asc", "location_desc", "route_asc",
     "route_desc", "grade_asc", "grade_desc", "newest"}

\* list requests that vary the filters
FilterArgs ==
    {Args(q, env, type, progress, "grade_asc", 1, 0) :
        q \in {<<>>, <<" ">>, <<"a">>, <<"B">>, <<"_">>, <<"a", "b">>},
        env \in {<<>>, <<"gym">>, <<"gym", "", "outdoor">>},
        type \in {<<>>, <<"boulder">>, <<"sport", "trad">>},
        progress \in {<<>>, <<"complete">>}}

\* list requests that vary the sort and the page
PageArgs ==
    {Args(<<>>, <<>>, type, <<>>, sort, page, pageSize) :
        type \in {<<>>, <<"boulder">>},
        sort \in Sorts,
        page \in 0..MaxPage,
        pageSize \in {1, 2, PAGE_SIZE_MAX + 1}}

QueryArgs == FilterArgs \cup PageArgs

\* requests that create the four kinds of valid record
QueryRequests ==
    {Request(p, NoUpload, FALSE) : p \in ValidPayloads}
    \cup {Request(PSport, Png, FALSE)}

\* a seed file with a record of blank scale beside two boulders, and one
\* whose only scale is neither YDS nor V
QuerySeedFiles ==
    {NoSeedFile,
     SeedFile(<<SeedItem("s1", PBoulderEasy), SeedBlankScale, SeedItem("s3", PBoulder)>>),
     SeedFile(<<SeedItem("s1", [PBoulder EXCEPT !.gradeSystem = "Font",
                                                !.grade = <<"6", "a">>])>>)}

ConcArgs ==
    {Args(<<>>, <<>>, <<>>, <<>>, "date_desc", 1, 0),
     Args(<<>>, <<>>, <<>>, <<>>, "grade_asc", 1, 0),
     Args(<<>>, <<>>, <<"boulder">>, <<>>, "grade_desc", 1, 1)}

ConcRequests == {Request(PBoulder, NoUpload, FALSE), Request(PSport, NoUpload, FALSE)}

ConcSeedFiles == {NoSeedFile, SeedFile(<<SeedItem("s1", PBoulderEasy)>>)}

\* payloads for the validator alone: every combination of these field values
PayloadSpace ==
    [date : {NoDate, BadDate, Ymd(2025, 1, 30), Ymd(2025, 1, 31), Ymd(2025, 2, 29)},
     environment : {"", "gym", "cave"},
     location : {<<>>, <<"a">>},
     routeName : {<<" ">>, <<"a">>},
     climbType : {"", "boulder", "sport", "top-rope", "trad", "swim"},
     gradeSystem : {"", "V", "YDS", "Font"},
     grade : {<<>>, <<" ">>, <<"V", "0">>, <<"V", "1", "7">>, <<"V", "1", "8">>,
              <<"v", "5">>, <<"V", "X">>, <<"V">>, <<"V", "-", "1">>,
              <<"5", ".", "2">>, <<"5", ".", "1", "5">>, <<"5", ".", "1", "6">>,
              <<"5", ".", "1">>, <<"5", ".", "1", "0", "a">>, <<"5", ".", "x">>,
              <<"5">>},
     progress : {"", "complete", "done"}]

----------------------------------------------------------------------------
(* State machine.                                                          *)

NoResponse == Response("none", 0, "", NoErrors, NoBody)

Init(files) ==
    /\ store = EmptyTable
    /\ ready = FALSE
    /\ seed \in files
    /\ uuids = 0
    /\ deleted = {}
    /\ resp = NoResponse
    /\ lq = IdleQuery

\* seed_db_if_empty reaches its INSERT
Seeding == seed.exists /\ DOMAIN store = {} /\ Len(seed.items) > 0

\* _ensure_db_ready, the before_request hook of the first request that
\* reaches an instance: init_db creates no row; a seed date the DATE column
\* refuses raises, the transaction rolls back and the flag stays unset.
EnsureDbReady ==
    /\ ~ready
    /\ IF Seeding /\ ~SeedInsertable(seed.items)
       THEN /\ resp' = Response("startup", 500, "", NoErrors, NoBody)
            /\ UNCHANGED <<store, ready, uuids>>
       ELSE /\ Seeding => uuids + MissingIds(seed.items) <= MaxUuids
            /\ store' = seed_db_if_empty(store, seed, uuids)
            /\ uuids' = IF Seeding THEN uuids + MissingIds(seed.items) ELSE uuids
            /\ ready' = TRUE
            /\ resp' = Response("startup", 0, "", NoErrors, NoBody)
    /\ lq' = NoteWrite(lq, store, store')
    /\ UNCHANGED <<seed, deleted>>

\* a new instance (process) starts: its _db_ready is unset
Restart ==
    /\ ready
    /\ ready' = FALSE
    /\ UNCHANGED <<store, seed, uuids, deleted, resp, lq>>

CreateLog(requests) ==
    /\ ready
    /\ \E r \in requests :
         \E img \in _read_and_validate_image_file(r.file) :
            LET out == create_log(store, uuids, r.raw, img)
            IN  /\ out.uuids <= MaxUuids
                /\ store' = out.table
                /\ uuids' = out.uuids
                /\ resp' = out.resp
    /\ lq' = NoteWrite(lq, store, store')
    /\ UNCHANGED <<ready, seed, deleted>>

UpdateLog(requests, ids) ==
    /\ ready
    /\ \E log_id \in ids, r \in requests :
         \E img \in _read_and_validate_image_file(r.file) :
            LET out == update_log(store, log_id, r.raw, r.remove_image, img)
            IN  /\ store' = out.table
                /\ resp' = out.resp @@ [request |-> r, upload |-> img]
    /\ lq' = NoteWrite(lq, store, store')
    /\ UNCHANGED <<ready, seed, uuids, deleted>>

DeleteLog(ids) ==
    /\ ready
    /\ \E log_id \in ids :
         LET out == delete_log(store, log_id)
         IN  /\ store' = out.table
             /\ resp' = out.resp
             /\ deleted' = IF out.resp.status = 200 THEN deleted \cup {log_id}
                           ELSE deleted
    /\ lq' = NoteWrite(lq, store, store')
    /\ UNCHANGED <<ready, seed, uuids>>

\* GET /api/logs with no write between its three transactions.  The
\* request changes nothing but resp, so one taken after another list
\* request reaches only states that one taken in its place reaches: it is
\* taken from the states another step left.
ListLogs(argset) ==
    /\ ready
    /\ lq.pc = "idle"
    /\ resp.op # "list"
    /\ \E args \in argset :
         \E r \in list_logs(store, args) :
            resp' = ListResponse(args, r.order_by, r.body, store, store, 0)
    /\ UNCHANGED <<store, ready, seed, uuids, deleted, lq>>

\* GET /api/logs, first transaction: the count
ListCount(argset) ==
    /\ ready
    /\ lq.pc = "idle"
    /\ \E args \in argset :
         lq' = [pc |-> "counted", args |-> args, total |-> ListTotal(store, args),
                order_by |-> OrderBy("", ""), before |-> store, writes |-> 0]
    /\ UNCHANGED <<store, ready, seed, uuids, deleted, resp>>

\* GET /api/logs, the sort decision (for a grade sort, the second transaction)
ListSort ==
    /\ lq.pc = "counted"
    /\ lq' = [lq EXCEPT !.pc = "sorted", !.order_by = ListOrderBy(store, lq.args)]
    /\ UNCHANGED <<store, ready, seed, uuids, deleted, resp>>

\* GET /api/logs, last transaction: the paged SELECT, and the response
ListSelect ==
    /\ lq.pc = "sorted"
    /\ \E items \in ListItems(store, lq.args, lq.order_by) :
         resp' = ListResponse(lq.args, lq.order_by,
                              ListBody(items, lq.total, lq.args),
                              lq.before, store, lq.writes)
    /\ lq' = IdleQuery
    /\ UNCHANGED <<store, ready, seed, uuids, deleted>>

\* validate_payload on the parsed payload of the request received
Validate ==
    /\ resp.op = "request"
    /\ resp' = Response("validate", 0, "",
                        validate_payload(_parse_payload_from_request(resp.body)),
                        resp.body)
    /\ UNCHANGED <<store, ready, seed, uuids, deleted, lq>>

Next ==
    \/ EnsureDbReady
    \/ Restart
    \/ CreateLog(Requests)
    \/ UpdateLog(Requests, RequestIds \ {"s2"})
    \/ DeleteLog(RequestIds \ {"s2"})

Spec == Init(SeedFiles) /\ [][Next]_vars

\* the query engine over the tables that seeding, creates and deletes leave
NextQuery ==
    \/ EnsureDbReady
    \/ CreateLog(QueryRequests)
    \/ DeleteLog({"s1", "s3"})
    \/ ListLogs(QueryArgs)

SpecQuery == Init(QuerySeedFiles) /\ [][NextQuery]_vars

\* one list request, transaction by transaction, among writes
NextConc ==
    \/ EnsureDbReady
    \/ CreateLog(ConcRequests)
    \/ UpdateLog(ConcRequests, {"s1"})
    \/ DeleteLog({"s1", uuid4(1)})
    \/ ListCount(ConcArgs)
    \/ ListSort
    \/ ListSelect

SpecConc == Init(ConcSeedFiles) /\ [][NextConc]_vars

\* the validator alone
InitValidate ==
    /\ store = EmptyTable
    /\ ready = FALSE
    /\ seed = NoSeedFile
    /\ uuids = 0
    /\ deleted = {}
    /\ resp \in {Response("request", 0, "", NoErrors, raw) : raw \in PayloadSpace}
    /\ lq = IdleQuery

NextValidate == Validate

SpecValidate == InitValidate /\ [][NextValidate]_vars

----------------------------------------------------------------------------
(* Properties.                                                             *)

GradeSorts == {"grade_asc", "grade_desc"}

IsList == resp.op = "list"

\* the grade-key order a grade sort asks for
GradeOrder(sort) == OrderBy("grade_key", IF sort = "grade_asc" THEN "ASC" ELSE "DESC")

\* grading scales of the rows of table that the request's filters keep
FilteredScales(table, args) == {table[id].grade_system : id \in Matching(table, args)}

\* items follow order_by: no item sorts strictly before an earlier one
ItemsFollow(items, table, order_by) ==
    \A i, j \in 1..Len(items) :
        i < j => ~Before(table[items[j].id], table[items[i].id], order_by)

C2_RejectedChangesNothing ==
    [][(resp'.op \in {"create", "update"} /\ resp'.status = 400) => store' = store]_vars

\* an update of an existing record rejected for its image alone, with
\* removeImage set, while the record holds an image
C2_Witness ==
    /\ resp.op = "update"
    /\ resp.status = 400
    /\ DOMAIN resp.errors = {"image"}
    /\ resp.id \in DOMAIN store
    /\ store[resp.id].image_mime # NULL

\* C3: once a delete of an id has succeeded, no later table holds a row
\* with that id, whatever creates, updates, deletes and instance start-ups
\* follow.  (That ids are pairwise distinct is the primary key: store is a
\* function of the id.)
C3_DeletedIdNeverReturns == deleted \cap DOMAIN store = {}

\* C4: a list request with one write between its transactions answers as
\* it would on the table before the write or on the table after it.
C4_ListSeesOneState ==
    (IsList /\ resp.writes = 1) =>
        [body |-> resp.body, order_by |-> resp.order_by]
            \in list_logs(resp.before, resp.args) \cup list_logs(resp.after, resp.args)

\* the valid range of a scale's keys
InScaleRange(gsys, k) ==
    \/ gsys = "YDS" /\ k >= 502 /\ k <= 515
    \/ gsys = "V" /\ k >= 0 /\ k <= 17

\* C5: every row's grade_key is the codec's key of its grade_system and
\* grade, and lies in the scale's range; no row holds the key -1.
C5_GradeKeyConsistentAndInRange ==
    \A id \in DOMAIN store :
        /\ store[id].grade_key = _grade_key(store[id].grade_system, store[id].grade)
        /\ InScaleRange(store[id].grade_system, store[id].grade_key)

\* C6: in every row, climb_type is boulder exactly when grade_system is V,
\* and a row that is not a boulder has grade_system YDS.
C6_ScaleMatchesClimbType ==
    \A id \in DOMAIN store :
        /\ store[id].climb_type = "boulder" <=> store[id].grade_system = "V"
        /\ store[id].climb_type # "boulder" => store[id].grade_system = "YDS"

\* q occurs in text, letters compared without regard to case
ContainsCI(text, q) ==
    \E i \in 1..(Len(text) - Len(q) + 1) :
        Lower(SubSeq(text, i, i + Len(q) - 1)) = Lower(q)

\* a row satisfies every criterion the request provides
SatisfiesCriteria(row, args) ==
    LET q == Strip(args.q)
        envs == Range(args.env) \ {""}
        types == Range(args.type) \ {""}
        progress == Range(args.progress) \ {""}
    IN  /\ q # <<>> => ContainsCI(row.route_name, q) \/ ContainsCI(row.location, q)
        /\ envs # {} => row.environment \in envs
        /\ types # {} => row.climb_type \in types
        /\ progress # {} => row.progress \in progress

\* C7: the records counted in total, and those that may appear in items,
\* are exactly the records that satisfy every provided criterion, q being
\* a case-insensitive substring of the route name or of the location.
C7_FilterIsSubstringAndMembership ==
    IsList =>
        LET wanted == {id \in DOMAIN resp.before :
                          SatisfiesCriteria(resp.before[id], resp.args)}
        IN  /\ resp.body.total = Cardinality(wanted)
            /\ \A i \in 1..Len(resp.body.items) : resp.body.items[i].id \in wanted

\* seq lists each id of ids once, in an order order_by allows
IsSortedListing(seq, ids, table, order_by) ==
    /\ Len(seq) = Cardinality(ids)
    /\ Range(seq) = ids
    /\ \A i, j \in 1..Len(seq) : i < j => ~Before(table[seq[j]], table[seq[i]], order_by)

\* C8: over an unchanged table with N matching records, page p >= 1 of
\* size s in 1..50 holds the elements at positions (p-1)*s+1 .. (p-1)*s+s
\* of a filtered and sorted sequence, min(s, max(0, N - (p-1)*s)) of them,
\* and total is N.
C8_PageIsSliceAndTotalIsCount ==
    (IsList /\ resp.args.page >= 1
            /\ resp.args.pageSize >= 1 /\ resp.args.pageSize <= PAGE_SIZE_MAX) =>
        LET ids == Matching(resp.before, resp.args)
            N == Cardinality(ids)
            p == resp.args.page
            sz == resp.args.pageSize
            items == resp.body.items
            got == [i \in 1..Len(items) |-> items[i].id]
        IN  /\ resp.body.total = N
            /\ Len(items) = Min(sz, Max(0, N - (p - 1) * sz))
            /\ \E seq \in [1..N -> ids] :
                  /\ IsSortedListing(seq, ids, resp.before, resp.order_by)
                  /\ \A i \in 1..Len(items) : got[i] = seq[(p - 1) * sz + i]
            /\ \A i \in 1..Len(items) : items[i] = to_api_row(resp.before, got[i])

\* the last, partly filled page of three matching records, and the page
\* after it
C8_Witness ==
    /\ IsList
    /\ resp.args.pageSize = 2
    /\ resp.args.page = 2
    /\ resp.body.total = 3
    /\ Len(resp.body.items) = 1
    /\ resp.order_by = OrderBy("route_name", "DESC")

\* C9: over the same table and with the same criteria a list request has
\* one possible answer (records that tie on the sort key come in insertion
\* order), so the pages of a query neither repeat nor miss a record.
C9_ListIsDeterministic ==
    IsList => \A r \in list_logs(resp.before, resp.args) : r.body = resp.body

\* C10: validate reports an error on grade whenever gradeSystem is V, the
\* grade is present and its key is outside 0..17, and whenever gradeSystem
\* is YDS, the grade is present and its key is outside 502..515, for every
\* climbType.
C10_RangeCheckedForEveryClimbType ==
    resp.op = "validate" =>
        LET payload == resp.body
            grade == Strip(payload.grade)
        IN  (/\ payload.gradeSystem \in {"V", "YDS"}
             /\ grade # <<>>
             /\ ~InScaleRange(payload.gradeSystem,
                              _grade_key(payload.gradeSystem, grade)))
                => "grade" \in DOMAIN resp.errors

\* a step of the instance that answers a request with the given operation
\* (a start-up answers "startup"; a new instance unsets the flag)
Answers(op) == resp'.op = op /\ ready'

\* C11: a delete of an id in the table answers 200 and removes that row and
\* no other; a delete of an id not in the table answers 404 and leaves the
\* table as it was, so a second delete of the same id right after a
\* successful one answers 404.
C11_DeleteRemovesOneOrNotFound ==
    [][Answers("delete") =>
        /\ IF resp'.id \in DOMAIN store
           THEN /\ resp'.status = 200
                /\ DOMAIN store' = DOMAIN store \ {resp'.id}
                /\ \A k \in DOMAIN store' : store'[k] = store[k]
           ELSE /\ resp'.status = 404
                /\ store' = store
        /\ (resp.op = "delete" /\ resp.status = 200 /\ resp'.id = resp.id)
              => (resp'.status = 404 /\ store' = store)]_vars

\* a delete answered 404 for an id that an earlier delete removed, beside a
\* row that stays
C11_Witness ==
    /\ resp.op = "delete"
    /\ resp.status = 404
    /\ resp.id \in deleted
    /\ resp.id \notin DOMAIN store
    /\ DOMAIN store # {}

\* what a successful update of resp'.id leaves: the same ids, every other
\* row as it was, the nine data columns and grade_key from the request, and
\* the image columns cleared (removeImage), replaced (a valid upload and no
\* removeImage) or as they were
UpdateWritesRecord ==
    LET id == resp'.id
        raw == resp'.request.raw
        img == resp'.upload
        old == store[id]
        new == store'[id]
    IN  /\ id \in DOMAIN store
        /\ DOMAIN store' = DOMAIN store
        /\ \A k \in DOMAIN store \ {id} : store'[k] = store[k]
        /\ new.date = DateOf(raw.date)
        /\ new.environment = raw.environment
        /\ new.location = Strip(raw.location)
        /\ new.route_name = Strip(raw.routeName)
        /\ new.climb_type = raw.climbType
        /\ new.grade_system = raw.gradeSystem
        /\ new.grade = Strip(raw.grade)
        /\ new.grade_key = _grade_key(raw.gradeSystem, Strip(raw.grade))
        /\ new.progress = raw.progress
        /\ <<new.image_data, new.image_mime, new.image_filename>> =
              IF resp'.request.remove_image THEN <<NoBytes, NULL, NULL>>
              ELSE IF img.mime # NULL THEN <<img.data, img.mime, img.filename>>
              ELSE <<old.image_data, old.image_mime, old.image_filename>>

\* the request of the update passes validation, its image included
UpdateRequestValid ==
    /\ DOMAIN validate_payload(_parse_payload_from_request(resp'.request.raw)) = {}
    /\ resp'.upload.err = ""

\* C12 as stated: a successful update keeps the id, replaces the other data
\* fields, changes no other record and treats the image as the request says;
\* every update of an id not in the table answers 404 and inserts nothing.
C12_UpdateOfAbsentIdIsNotFound ==
    [][Answers("update") =>
        /\ resp'.status = 200 => UpdateWritesRecord
        /\ resp'.id \notin DOMAIN store
              => (resp'.status = 404 /\ store' = store)]_vars

\* C12: a successful update keeps the id, replaces the other data fields,
\* changes no other record and treats the image as the request says; an
\* update of an id not in the table inserts nothing, and answers 404 when
\* its request passes validation and 400 when it does not.
C12_UpdateReplacesOneRecord ==
    [][Answers("update") =>
        /\ resp'.status = 200 => UpdateWritesRecord
        /\ resp'.id \notin DOMAIN store
              => /\ resp'.status = IF UpdateRequestValid THEN 404 ELSE 400
                 /\ store' = store]_vars

\* a successful update with removeImage set and a valid image uploaded,
\* beside another record
C12_Witness ==
    /\ resp.op = "update"
    /\ resp.status = 200
    /\ resp.request.remove_image
    /\ resp.upload.mime # NULL
    /\ store[resp.id].image_mime = NULL
    /\ Cardinality(DOMAIN store) = 2

====
